---- MODULE Spec2Model ----
(***************************************************************************)
(* Model of plugins/upload/src/lib.rs: the `download` and `upload`         *)
(* commands of the upload plugin and their rate-limited progress events.   *)
(*                                                                         *)
(* One transfer is modelled per behaviour: Init picks either a download or *)
(* an upload invocation.  Every await point of the code is one action; the *)
(* synchronous code that follows an await up to the next one belongs to    *)
(* the same action.  The outcome of every external call (HTTP send, body   *)
(* read, file create/write/flush, file open/read, JSON parse) is chosen    *)
(* nondeterministically, and so are the HTTP status of the response and    *)
(* the value returned by every window.emit call.  Wall-clock time is a     *)
(* counter of ticks advanced by Tick; Instant::now() reads it.             *)
(* SpecConcurrent runs a download and an upload side by side.              *)
(***************************************************************************)
EXTENDS Integers, Sequences, FiniteSets, TLC

----------------------------------------------------------------------------
(* Bounds of the model *)

\* clock ticks per second (resolution of the modelled clock)
TicksPerSec == 1
\* a chunk holds 1..MaxChunkLen bytes
MaxChunkLen == 2
\* at most this many chunks are delivered by a source
MaxChunks == 2
\* an emit call returns at most this many ticks after it was entered
MaxEmitDelay == 1
\* largest declared content length
MaxContentLength == 1
\* largest caller-supplied id
MaxId == 2

Ids == 1..MaxId
None == -1
ContentLengths == {None} \cup 0..MaxContentLength
JsonValues == {"json"}
\* HTTP statuses a response can carry: a success, a client and a server error
Statuses == {200, 404, 500}

\* sizes of the chunks a source can deliver
ChunkLens == 1..MaxChunkLen
\* The code never inspects the bytes it moves, so the body is taken to be
\* the byte string 1, 2, 3, ... : the chunk of n bytes found at offset o
BodyChunk(o, n) == [i \in 1..n |-> o + i]

----------------------------------------------------------------------------
(* Program constants and pure helpers *)

\* Duration::from_secs(1), in ticks
Interval == 1 * TicksPerSec
\* the clock stops advancing at this tick: room for two full intervals
MaxTime == 2 * Interval

\* Error::Io(#[from] std::io::Error)
FromIoError == "Io"
\* Error::Request(#[from] reqwest::Error)
FromReqwestError == "Request"

\* Result<T>: not yet returned, Ok(v), Err(e)
Pending == [tag |-> "Pending", val |-> <<>>, err |-> ""]
Ok(v) == [tag |-> "Ok", val |-> <<v>>, err |-> ""]
Err(e) == [tag |-> "Err", val |-> <<>>, err |-> e]

\* variant: the declared content length is dropped
ContentLengthOrZeroDropped(cl) == 0

\* response.content_length().unwrap_or(0)
ContentLengthOrZero(cl) == IF cl = None THEN 0 ELSE cl

\* ProgressPayload { id, progress, total } handed to window.emit(event, ..);
\* `at` is the time of the emit call, `final` marks the call after the loop
Payload(event, id, progress, total, at, final) ==
    [event |-> event, id |-> id, progress |-> progress, total |-> total,
     at |-> at, final |-> final]

\* variant: the elapsed time is not compared with the interval
EmitDueAlways(last, t) == t - last >= 0

\* last_emit_time.elapsed() >= Duration::from_secs(1)
EmitDue(last, t) == t - last >= Interval

\* variant: the chunk is put in front of what was written
WriteAllPrepend(f, c) == c \o f

\* file.write_all(&chunk): the bytes are appended to what the writer holds
WriteAll(f, c) == f \o c

\* variant: the accumulator counts chunks instead of bytes
AddChunkLenOne(tp, c) == tp + 1

\* temp_progress += chunk.len() as u64
AddChunkLen(tp, c) == tp + Len(c)

\* variant: a sample is emitted only after more than one second
DownloadLoopEmitsStrict(id, tp, total, last, t) ==
    IF t - last > Interval
    THEN <<Payload("download://progress", id, tp, total, t, FALSE)>>
    ELSE <<>>

\* the payloads emitted by one pass through the loop body (download)
DownloadLoopEmits(id, tp, total, last, t) ==
    IF EmitDue(last, t)
    THEN <<Payload("download://progress", id, tp, total, t, FALSE)>>
    ELSE <<>>

\* variant: the residual is not emitted after the loop
DownloadFinalEmitsNone(id, tp, total, t) == <<>>

\* the payloads emitted after the loop (download): if temp_progress != 0
DownloadFinalEmits(id, tp, total, t) ==
    IF tp # 0
    THEN <<Payload("download://progress", id, tp, total, t, TRUE)>>
    ELSE <<>>

\* the payloads emitted by one call of the progress closure of file_to_body:
\* `progress` is the closure's first argument (the size of the chunk just
\* read), `total` its second (the bytes read so far)
UploadClosureEmits(id, progress, total, last, t) ==
    IF EmitDue(last, t)
    THEN <<Payload("upload://progress", id, progress, total, t, FALSE)>>
    ELSE <<>>

\* temp_progress = temp_progress + progress
AddProgress(tp, progress) == tp + progress

\* request.send().await? in upload: reqwest::Error through From
UploadSendErrorKind == FromReqwestError
\* variant: a JSON failure gets an error kind of its own
UploadJsonErrorKindOwn == "Json"

\* response.json().await.map_err(Into::into): reqwest::Error through From
UploadJsonErrorKind == FromReqwestError
\* variant: the open failure is reported as a request error
UploadOpenErrorKindRequest == FromReqwestError

\* File::open(file_path).await? : std::io::Error through From
UploadOpenErrorKind == FromIoError

RECURSIVE SumProgress(_)
SumProgress(s) == IF s = <<>> THEN 0 ELSE Head(s).progress + SumProgress(Tail(s))

RECURSIVE Flatten(_)
Flatten(cs) == IF cs = <<>> THEN <<>> ELSE Head(cs) \o Flatten(Tail(cs))

IsPrefix(a, b) == Len(a) <= Len(b) /\ SubSeq(b, 1, Len(a)) = a

----------------------------------------------------------------------------
VARIABLES
    now,                \* wall clock, in ticks
    events,             \* payloads handed to window.emit, in call order
    emit_failed,        \* indices in events of the emit calls that returned Err
    \* download
    dpc,                \* position of download
    d_id,               \* argument id
    responded,          \* request.send() returned a response
    status,             \* HTTP status of the response, or None
    content_length,     \* declared content length of the response, or None
    total,              \* local `total`
    received,           \* chunks yielded so far by stream.try_next()
    chunk,              \* the chunk bound by `while let Some(chunk)`
    eof,                \* the body stream returned None
    created,            \* File::create succeeded (file exists, truncated)
    file,               \* bytes handed to the BufWriter so far
    flushed,            \* file.flush() succeeded
    last_emit_time,     \* local of download
    temp_progress,      \* local of download
    d_timer0,           \* value of the first Instant::now() of download
    d_result,           \* value returned by download
    d_failed_step,      \* the external call of download that failed, or "none"
    \* upload
    upc,                \* position of upload
    u_id,               \* argument id
    opened,             \* File::open succeeded
    request_built,      \* client.put(url).body(..) was built
    request_sent,       \* request.send() was called
    bytes_read,         \* bytes yielded by the file stream to the body
    u_last_emit_time,   \* captured by the progress closure
    u_temp_progress,    \* captured by the progress closure
    u_timer0,           \* value of the first Instant::now() of file_to_body
    u_chunks,           \* number of chunks yielded by the file stream
    u_result,           \* value returned by upload
    u_failed_step       \* the external call of upload that failed, or "none"

dvars == <<dpc, d_id, responded, status,
           content_length, total, received, chunk, eof, created,
           file, flushed, last_emit_time, temp_progress, d_timer0, d_result,
           d_failed_step>>
uvars == <<upc, u_id, opened, request_built, request_sent, bytes_read,
           u_last_emit_time, u_temp_progress, u_timer0, u_chunks, u_result,
           u_failed_step>>
vars == <<now, events, emit_failed, dvars, uvars>>

DownloadSamples == SelectSeq(events, LAMBDA e : e.event = "download://progress")
UploadSamples == SelectSeq(events, LAMBDA e : e.event = "upload://progress")

----------------------------------------------------------------------------
(* Initial states *)

InitClock == now = 0 /\ events = <<>> /\ emit_failed = {}

InitDownloadVars(pc, ids) ==
    /\ dpc = pc
    /\ d_id \in ids
    /\ responded = FALSE
    /\ status = None
    /\ content_length = None
    /\ total = 0
    /\ received = <<>>
    /\ chunk = <<>>
    /\ eof = FALSE
    /\ created = FALSE
    /\ file = <<>>
    /\ flushed = FALSE
    /\ last_emit_time = 0
    /\ temp_progress = 0
    /\ d_timer0 = 0
    /\ d_result = Pending
    /\ d_failed_step = "none"

InitUploadVars(pc, ids) ==
    /\ upc = pc
    /\ u_id \in ids
    /\ opened = FALSE
    /\ request_built = FALSE
    /\ request_sent = FALSE
    /\ bytes_read = 0
    /\ u_last_emit_time = 0
    /\ u_temp_progress = 0
    /\ u_timer0 = 0
    /\ u_chunks = 0
    /\ u_result = Pending
    /\ u_failed_step = "none"

\* either download(window, id, ..) or upload(window, id, ..) was invoked
Init ==
    /\ InitClock
    /\ \/ InitDownloadVars("send", Ids) /\ InitUploadVars("off", {1})
       \/ InitDownloadVars("off", {1}) /\ InitUploadVars("open", Ids)

----------------------------------------------------------------------------
(* The event sink *)

\* window.emit(event, payload) for the payloads of out: each call returns
\* Ok or Err, and the callers drop the value returned
EmitAll(out) ==
    /\ events' = events \o out
    /\ \E failed \in SUBSET ((Len(events) + 1)..(Len(events) + Len(out))) :
          emit_failed' = emit_failed \cup failed

----------------------------------------------------------------------------
(* Time *)

Tick ==
    /\ now < MaxTime
    /\ now' = now + 1
    /\ UNCHANGED <<events, emit_failed, dvars, uvars>>

----------------------------------------------------------------------------
(* download *)

\* the `?` operator: return Err(e.into()) from download
DownloadFail(step, e) ==
    /\ dpc' = "failed"
    /\ d_failed_step' = step
    /\ d_result' = Err(e)

\* variant: the file is created before the request is sent
DownloadSendAfterCreate ==
    /\ dpc = "send"
    /\ created' = TRUE
    /\ \/ \E cl \in ContentLengths, st \in Statuses :
            /\ responded' = TRUE
            /\ status' = st
            /\ content_length' = cl
            /\ total' = ContentLengthOrZero(cl)
            /\ dpc' = "create"
            /\ UNCHANGED <<d_result, d_failed_step>>
       \/ /\ DownloadFail("send", FromReqwestError)
          /\ UNCHANGED <<responded, status, content_length, total>>
    /\ UNCHANGED <<now, events, emit_failed, d_id, received, chunk, eof, file, flushed,
                   last_emit_time, temp_progress, d_timer0, uvars>>

\* variant: a response with an error status is turned into an error
\* (error_for_status)
DownloadSendErrorForStatus ==
    /\ dpc = "send"
    /\ \/ \E cl \in ContentLengths, st \in Statuses :
            /\ responded' = TRUE
            /\ status' = st
            /\ content_length' = cl
            /\ total' = ContentLengthOrZero(cl)
            /\ IF st >= 400
               THEN DownloadFail("send", FromReqwestError)
               ELSE dpc' = "create" /\ UNCHANGED <<d_result, d_failed_step>>
       \/ /\ DownloadFail("send", FromReqwestError)
          /\ UNCHANGED <<responded, status, content_length, total>>
    /\ UNCHANGED <<now, events, emit_failed, d_id, received, chunk, eof,
                   created, file, flushed, last_emit_time, temp_progress,
                   d_timer0, uvars>>

\* let response = request.send().await?;  let total = ..unwrap_or(0);
DownloadSend ==
    /\ dpc = "send"
    /\ \/ \E cl \in ContentLengths, st \in Statuses :
            /\ responded' = TRUE
            /\ status' = st
            /\ content_length' = cl
            /\ total' = ContentLengthOrZero(cl)
            /\ dpc' = "create"
            /\ UNCHANGED <<d_result, d_failed_step>>
       \/ /\ DownloadFail("send", FromReqwestError)
          /\ UNCHANGED <<responded, status, content_length, total>>
    /\ UNCHANGED <<now, events, emit_failed, d_id, received, chunk, eof, created, file,
                   flushed, last_emit_time, temp_progress, d_timer0, uvars>>

\* BufWriter::new(File::create(file_path).await?); bytes_stream();
\* last_emit_time = Instant::now(); temp_progress = 0
DownloadCreate ==
    /\ dpc = "create"
    /\ \/ /\ created' = TRUE
          /\ file' = <<>>
          /\ last_emit_time' = now
          /\ d_timer0' = now
          /\ temp_progress' = 0
          /\ dpc' = "next"
          /\ UNCHANGED <<d_result, d_failed_step>>
       \/ /\ DownloadFail("create", FromIoError)
          /\ UNCHANGED <<created, file, last_emit_time, d_timer0, temp_progress>>
    /\ UNCHANGED <<now, events, emit_failed, d_id, responded, status, content_length, total, received, chunk,
                   eof, flushed, uvars>>

\* variant: the next chunk is requested while the last one is being written
DownloadNextSomeEager ==
    /\ dpc \in {"next", "write"}
    /\ Len(received) < MaxChunks
    /\ \E n \in ChunkLens :
          LET c == BodyChunk(Len(Flatten(received)), n)
          IN  /\ received' = Append(received, c)
              /\ chunk' = c
    /\ dpc' = "write"
    /\ UNCHANGED <<now, events, emit_failed, d_id, responded, status, content_length, total, eof,
                   created, file, flushed, last_emit_time, temp_progress,
                   d_timer0, d_result, d_failed_step, uvars>>

\* while let Some(chunk) = stream.try_next().await?  -- Some(chunk)
DownloadNextSome ==
    /\ dpc = "next"
    /\ Len(received) < MaxChunks
    /\ \E n \in ChunkLens :
          LET c == BodyChunk(Len(Flatten(received)), n)
          IN  /\ received' = Append(received, c)
              /\ chunk' = c
    /\ dpc' = "write"
    /\ UNCHANGED <<now, events, emit_failed, d_id, responded, status, content_length, total, eof, created,
                   file, flushed, last_emit_time, temp_progress, d_timer0,
                   d_result, d_failed_step, uvars>>

\* variant: the residual is emitted before the error is returned
DownloadNextErrFlushing ==
    /\ dpc = "next"
    /\ DownloadFail("read", FromReqwestError)
    /\ EmitAll(DownloadFinalEmits(d_id, temp_progress, total, now))
    /\ UNCHANGED <<now, d_id, responded, status, content_length, total, received,
                   chunk, eof, created, file, flushed, last_emit_time,
                   temp_progress, d_timer0, uvars>>

\* stream.try_next().await?  -- Err(e)
DownloadNextErr ==
    /\ dpc = "next"
    /\ DownloadFail("read", FromReqwestError)
    /\ UNCHANGED <<now, events, emit_failed, d_id, responded, status, content_length, total, received, chunk,
                   eof, created, file, flushed, last_emit_time, temp_progress,
                   d_timer0, uvars>>

\* stream.try_next() -- None: the loop ends, the residual is emitted and
\* file.flush() is awaited
DownloadNextNone ==
    /\ dpc = "next"
    /\ eof' = TRUE
    /\ EmitAll(DownloadFinalEmits(d_id, temp_progress, total, now))
    /\ dpc' = "flush"
    /\ UNCHANGED <<now, d_id, responded, status, content_length, total, received, chunk, created,
                   file, flushed, last_emit_time, temp_progress, d_timer0,
                   d_result, d_failed_step, uvars>>

\* variant: when the emit call fails the accumulator and the timer are
\* kept, so that the bytes are reported again by the next sample
DownloadWriteOkKeepOnFailure ==
    /\ dpc = "write"
    /\ file' = WriteAll(file, chunk)
    /\ chunk' = <<>>
    /\ LET tp == AddChunkLen(temp_progress, chunk)
           out == DownloadLoopEmits(d_id, tp, total, last_emit_time, now)
       IN  IF out # <<>>
           THEN \E d \in 0..MaxEmitDelay, ok \in BOOLEAN :
                   /\ now + d <= MaxTime
                   /\ events' = events \o out
                   /\ emit_failed' = IF ok THEN emit_failed
                                     ELSE emit_failed \cup {Len(events) + 1}
                   /\ now' = now + d
                   /\ last_emit_time' = IF ok THEN now + d ELSE last_emit_time
                   /\ temp_progress' = IF ok THEN 0 ELSE tp
           ELSE /\ temp_progress' = tp
                /\ UNCHANGED <<events, emit_failed, now, last_emit_time>>
    /\ dpc' = "next"
    /\ UNCHANGED <<d_id, responded, status, content_length, total, received,
                   eof, created, flushed, d_timer0, d_result, d_failed_step,
                   uvars>>

\* file.write_all(&chunk).await? succeeded, then the rest of the loop body;
\* the emit call takes d ticks, after which Instant::now() is read again
DownloadWriteOk ==
    /\ dpc = "write"
    /\ file' = WriteAll(file, chunk)
    /\ chunk' = <<>>
    /\ LET tp == AddChunkLen(temp_progress, chunk)
           out == DownloadLoopEmits(d_id, tp, total, last_emit_time, now)
       IN  IF out # <<>>
           THEN \E d \in 0..MaxEmitDelay :
                   /\ now + d <= MaxTime
                   /\ EmitAll(out)
                   /\ now' = now + d
                   /\ last_emit_time' = now + d
                   /\ temp_progress' = 0
           ELSE /\ temp_progress' = tp
                /\ UNCHANGED <<events, emit_failed, now, last_emit_time>>
    /\ dpc' = "next"
    /\ UNCHANGED <<d_id, responded, status, content_length, total, received, eof, created,
                   flushed, d_timer0, d_result, d_failed_step, uvars>>

\* file.write_all(&chunk).await? failed after k bytes of the chunk
DownloadWriteErr ==
    /\ dpc = "write"
    /\ \E k \in 0..(Len(chunk) - 1) : file' = WriteAll(file, SubSeq(chunk, 1, k))
    /\ DownloadFail("write", FromIoError)
    /\ UNCHANGED <<now, events, emit_failed, d_id, responded, status, content_length, total, received, chunk,
                   eof, created, flushed, last_emit_time, temp_progress,
                   d_timer0, uvars>>

\* variant: the result of file.flush() is ignored
DownloadFlushIgnored ==
    /\ dpc = "flush"
    /\ flushed' \in BOOLEAN
    /\ dpc' = "done"
    /\ d_result' = Ok(d_id)
    /\ UNCHANGED <<now, events, emit_failed, d_id, responded, status, content_length, total,
                   received, chunk, eof, created, file, last_emit_time,
                   temp_progress, d_timer0, d_failed_step, uvars>>

\* file.flush().await?;  Ok(id)
DownloadFlush ==
    /\ dpc = "flush"
    /\ \/ /\ flushed' = TRUE
          /\ dpc' = "done"
          /\ d_result' = Ok(d_id)
          /\ UNCHANGED d_failed_step
       \/ /\ DownloadFail("flush", FromIoError)
          /\ UNCHANGED flushed
    /\ UNCHANGED <<now, events, emit_failed, d_id, responded, status, content_length, total, received, chunk,
                   eof, created, file, last_emit_time, temp_progress, d_timer0,
                   uvars>>

Download ==
    \/ DownloadSend
    \/ DownloadCreate
    \/ DownloadNextSome
    \/ DownloadNextErr
    \/ DownloadNextNone
    \/ DownloadWriteOk
    \/ DownloadWriteErr
    \/ DownloadFlush

----------------------------------------------------------------------------
(* upload *)

\* return Err(e) from upload
UploadFail(step, e) ==
    /\ upc' = "failed"
    /\ u_failed_step' = step
    /\ u_result' = Err(e)

\* let file = File::open(file_path).await?; then the request is built with
\* file_to_body (temp_progress = 0, last_emit_time = Instant::now()), the
\* headers are added and request.send() is called
UploadOpen ==
    /\ upc = "open"
    /\ \/ /\ opened' = TRUE
          /\ request_built' = TRUE
          /\ u_temp_progress' = 0
          /\ u_last_emit_time' = now
          /\ u_timer0' = now
          /\ request_sent' = TRUE
          /\ upc' = "body"
          /\ UNCHANGED <<u_result, u_failed_step>>
       \/ /\ UploadFail("open", UploadOpenErrorKind)
          /\ UNCHANGED <<opened, request_built, u_temp_progress,
                         u_last_emit_time, u_timer0, request_sent>>
    /\ UNCHANGED <<now, events, emit_failed, u_id, bytes_read, u_chunks, dvars>>

\* variant: the closure counts into the accumulator of download, as if
\* temp_progress were one variable shared by all transfers
UploadBodyChunkShared ==
    /\ upc = "body"
    /\ u_chunks < MaxChunks
    /\ \E n \in ChunkLens :
          LET tp == AddProgress(temp_progress, n)
              out == UploadClosureEmits(u_id, n, bytes_read + n,
                                        u_last_emit_time, now)
          IN  /\ bytes_read' = bytes_read + n
              /\ IF out # <<>>
                 THEN \E d \in 0..MaxEmitDelay :
                         /\ now + d <= MaxTime
                         /\ EmitAll(out)
                         /\ now' = now + d
                         /\ temp_progress' = 0
                         /\ u_last_emit_time' = now + d
                 ELSE /\ temp_progress' = tp
                      /\ UNCHANGED <<events, emit_failed, now,
                                     u_last_emit_time>>
    /\ u_chunks' = u_chunks + 1
    /\ UNCHANGED <<upc, u_id, opened, request_built, request_sent, u_timer0,
                   u_temp_progress, u_result, u_failed_step, dpc, d_id,
                   responded, status, content_length, total, received, chunk,
                   eof, created, file, flushed, last_emit_time, d_timer0,
                   d_result, d_failed_step>>

\* the request body polls the stream: the file yields a chunk of n bytes,
\* ReadProgressStream calls the closure with (n, bytes read so far) and
\* forwards the chunk; an emit call takes d ticks
UploadBodyChunk ==
    /\ upc = "body"
    /\ u_chunks < MaxChunks
    /\ \E n \in ChunkLens :
          LET tp == AddProgress(u_temp_progress, n)
              out == UploadClosureEmits(u_id, n, bytes_read + n,
                                        u_last_emit_time, now)
          IN  /\ bytes_read' = bytes_read + n
              /\ IF out # <<>>
                 THEN \E d \in 0..MaxEmitDelay :
                         /\ now + d <= MaxTime
                         /\ EmitAll(out)
                         /\ now' = now + d
                         /\ u_temp_progress' = 0
                         /\ u_last_emit_time' = now + d
                 ELSE /\ u_temp_progress' = tp
                      /\ UNCHANGED <<events, emit_failed, now, u_last_emit_time>>
    /\ u_chunks' = u_chunks + 1
    /\ UNCHANGED <<upc, u_id, opened, request_built, request_sent, u_timer0,
                   u_result, u_failed_step, dvars>>

\* the file stream is exhausted: the body is complete, the closure is not
\* called, the response is awaited
UploadBodyEnd ==
    /\ upc = "body"
    /\ upc' = "response"
    /\ UNCHANGED <<now, events, emit_failed, u_id, opened, request_built, request_sent,
                   bytes_read, u_last_emit_time, u_temp_progress, u_timer0,
                   u_chunks, u_result, u_failed_step, dvars>>

\* the file stream yields an error: the request fails with a reqwest::Error
UploadBodyErr ==
    /\ upc = "body"
    /\ UploadFail("read", UploadSendErrorKind)
    /\ UNCHANGED <<now, events, emit_failed, u_id, opened, request_built, request_sent,
                   bytes_read, u_last_emit_time, u_temp_progress, u_timer0,
                   u_chunks, dvars>>

\* request.send().await? fails in the transport
UploadSendErr ==
    /\ upc \in {"body", "response"}
    /\ UploadFail("transport", UploadSendErrorKind)
    /\ UNCHANGED <<now, events, emit_failed, u_id, opened, request_built, request_sent,
                   bytes_read, u_last_emit_time, u_temp_progress, u_timer0,
                   u_chunks, dvars>>

\* let response = request.send().await?  -- Ok(response)
UploadResponse ==
    /\ upc = "response"
    /\ upc' = "json"
    /\ UNCHANGED <<now, events, emit_failed, u_id, opened, request_built, request_sent,
                   bytes_read, u_last_emit_time, u_temp_progress, u_timer0,
                   u_chunks, u_result, u_failed_step, dvars>>

\* response.json().await.map_err(Into::into)
UploadJson ==
    /\ upc = "json"
    /\ \/ /\ \E v \in JsonValues : u_result' = Ok(v)
          /\ upc' = "done"
          /\ UNCHANGED u_failed_step
       \/ UploadFail("json", UploadJsonErrorKind)
    /\ UNCHANGED <<now, events, emit_failed, u_id, opened, request_built, request_sent,
                   bytes_read, u_last_emit_time, u_temp_progress, u_timer0,
                   u_chunks, dvars>>

Upload ==
    \/ UploadOpen
    \/ UploadBodyChunk
    \/ UploadBodyEnd
    \/ UploadBodyErr
    \/ UploadSendErr
    \/ UploadResponse
    \/ UploadJson

Next == Tick \/ Download \/ Upload

Spec == Init /\ [][Next]_vars

\* a download and an upload with distinct ids were invoked and run
\* concurrently, sharing the window and the clock
InitConcurrent ==
    /\ InitClock
    /\ InitDownloadVars("send", Ids)
    /\ InitUploadVars("open", Ids)
    /\ d_id < u_id

\* the inputs that do not bear on the interplay of two transfers are fixed
\* in the concurrent runs: the response is a 200 without a declared length
\* and every emit call returns Ok
ConcurrentInputs ==
    /\ status \in {None, 200}
    /\ content_length = None
    /\ emit_failed = {}

\* in the concurrent runs an emit call takes no time: only Tick moves the clock
OnlyTickMovesClock ==
    now' = now \/ UNCHANGED <<events, emit_failed, dvars, uvars>>

ConcurrentStep(A) == A /\ ConcurrentInputs' /\ OnlyTickMovesClock

\* the steps of the two transfers and of the clock, in any order
NextConcurrent ==
    \/ ConcurrentStep(Tick)
    \/ ConcurrentStep(DownloadSend)
    \/ ConcurrentStep(DownloadCreate)
    \/ ConcurrentStep(DownloadNextSome)
    \/ ConcurrentStep(DownloadNextErr)
    \/ ConcurrentStep(DownloadNextNone)
    \/ ConcurrentStep(DownloadWriteOk)
    \/ ConcurrentStep(DownloadWriteErr)
    \/ ConcurrentStep(DownloadFlush)
    \/ ConcurrentStep(UploadOpen)
    \/ ConcurrentStep(UploadBodyChunk)
    \/ ConcurrentStep(UploadBodyEnd)
    \/ ConcurrentStep(UploadBodyErr)
    \/ ConcurrentStep(UploadSendErr)
    \/ ConcurrentStep(UploadResponse)
    \/ ConcurrentStep(UploadJson)

SpecConcurrent == InitConcurrent /\ [][NextConcurrent]_vars

----------------------------------------------------------------------------
(* Properties *)

Periodic(s) == SelectSeq(s, LAMBDA e : ~e.final)
\* ceil(t / 1s) for a duration of t ticks
CeilSecs(t) == (t + Interval - 1) \div Interval
\* the number of bytes received from the response body
BodyBytes == Len(Flatten(received))

\* C1: when download has returned Ok, the progress values of the
\* "download://progress" samples add up to the number of bytes received
\* from the body, which is the number of bytes written to the file.
DownloadProgressSumOnSuccess ==
    d_result.tag = "Ok" =>
        /\ SumProgress(DownloadSamples) = BodyBytes
        /\ BodyBytes = Len(file)

\* a successful download that emitted a periodic and a final sample
DownloadProgressSumWitness ==
    /\ d_result.tag = "Ok"
    /\ Len(DownloadSamples) = 2
    /\ ~DownloadSamples[1].final /\ DownloadSamples[2].final

\* C2: when upload has returned Ok, the progress values of the
\* "upload://progress" samples add up to the number of bytes read from the
\* file and sent as the request body.
UploadProgressSumOnSuccess ==
    u_result.tag = "Ok" => SumProgress(UploadSamples) = bytes_read

\* C3: the step that exhausts the source emits exactly one sample carrying
\* the residual when the unreported count is non-zero and nothing when it is
\* zero, in download (body stream returns None) and in upload (file stream
\* ends).
FinalResidualEmitted ==
    [][ /\ (dpc = "next" /\ dpc' = "flush") =>
              IF temp_progress # 0
              THEN /\ Len(events') = Len(events) + 1
                   /\ SubSeq(events', 1, Len(events)) = events
                   /\ events'[Len(events')].progress = temp_progress
              ELSE events' = events
        /\ (upc = "body" /\ upc' = "response") =>
              IF u_temp_progress # 0
              THEN /\ Len(events') = Len(events) + 1
                   /\ SubSeq(events', 1, Len(events)) = events
                   /\ events'[Len(events')].progress = u_temp_progress
              ELSE events' = events
      ]_vars

\* C4: periodic samples of one transfer are at least one second apart, the
\* first at least one second after the timer was started, and after T
\* seconds there are at most ceil(T / 1s) of them.
RateBoundOf(samples, timer0) ==
    LET p == Periodic(samples)
    IN  /\ \A i \in 1..Len(p) :
              p[i].at - (IF i = 1 THEN timer0 ELSE p[i - 1].at) >= Interval
        /\ Len(p) <= CeilSecs(now)

RateBound ==
    /\ RateBoundOf(DownloadSamples, d_timer0)
    /\ RateBoundOf(UploadSamples, u_timer0)

\* two periodic samples were emitted by one transfer
RateBoundWitness ==
    \/ Len(Periodic(DownloadSamples)) >= 2
    \/ Len(Periodic(UploadSamples)) >= 2

\* C5: a step that makes download fail in the body read or the file write
\* emits nothing, returns an error, and nothing is emitted afterwards; no
\* final sample exists in such a failed download.
DownloadFailureEmitsNothing ==
    [][ (dpc' = "failed" /\ d_failed_step' \in {"read", "write"}) =>
            /\ events' = events
            /\ d_result'.tag = "Err"
            /\ \A i \in 1..Len(events') : ~events'[i].final
      ]_vars

\* a download that failed mid-stream after a sample, with bytes unreported
DownloadFailureWitness ==
    /\ dpc = "failed"
    /\ d_failed_step \in {"read", "write"}
    /\ Len(DownloadSamples) >= 1
    /\ temp_progress > 0

\* C6: download returns Ok(id) exactly when send, create, every read, every
\* write and the flush succeeded; otherwise the first failing step ends it
\* with that step's error kind, and no later step is taken.
DownloadResult ==
    /\ d_result.tag = "Ok" <=>
          /\ responded /\ created /\ eof /\ flushed
          /\ file = Flatten(received)
          /\ d_failed_step = "none"
    /\ d_result.tag = "Ok" => d_result = Ok(d_id) /\ dpc = "done"
    /\ d_result.tag = "Err" <=> d_failed_step # "none"
    /\ d_failed_step \in {"create", "write", "flush"} => d_result = Err("Io")
    /\ d_failed_step \in {"send", "read"} => d_result = Err("Request")
    /\ d_failed_step = "send" => ~responded /\ ~created /\ received = <<>>
    /\ d_failed_step = "create" => responded /\ ~created /\ received = <<>>
    /\ d_failed_step \in {"read", "write"} => created /\ ~eof /\ ~flushed
    /\ d_failed_step = "write" => chunk # <<>>
    /\ d_failed_step = "flush" => eof /\ ~flushed

\* a download that returned Ok after a flush that followed two chunks
DownloadResultWitness ==
    /\ d_result = Ok(d_id)
    /\ flushed
    /\ Len(received) = 2

\* C7: the bytes handed to the file writer are always a prefix of the body
\* received so far: all of it between chunks and on success, all but the
\* chunk in hand during a write; a failed download keeps its file.
DownloadWriteOrder ==
    /\ IsPrefix(file, Flatten(received))
    /\ dpc \in {"next", "flush", "done"} => file = Flatten(received)
    /\ dpc = "write" => file \o chunk = Flatten(received)
    /\ d_result.tag = "Ok" => eof /\ file = [i \in 1..BodyBytes |-> i]
    /\ d_failed_step \in {"read", "write", "flush"} => created

\* a write failed in the second chunk after part of it was written
DownloadWriteOrderWitness ==
    /\ d_failed_step = "write"
    /\ Len(received) = 2
    /\ Len(file) > Len(received[1])

UploadOpenFailure ==
    u_failed_step = "open" =>
        /\ u_result = Err("Io")
        /\ upc = "failed"
        /\ ~opened /\ ~request_built /\ ~request_sent
        /\ bytes_read = 0
        /\ UploadSamples = <<>>

\* upload failed in File::open, and time went on
UploadOpenFailureWitness ==
    /\ u_failed_step = "open"
    /\ now >= Interval

\* C10: every sample of a download carries the caller's id and the declared
\* content length, 0 when none is declared.
DownloadSampleIdTotal ==
    \A i \in 1..Len(DownloadSamples) :
        /\ DownloadSamples[i].id = d_id
        /\ DownloadSamples[i].total =
              (IF content_length = None THEN 0 ELSE content_length)

\* two samples with a declared length smaller than the bytes received
DownloadSampleIdTotalWitness ==
    /\ Len(DownloadSamples) >= 2
    /\ content_length # None
    /\ content_length > 0
    /\ BodyBytes > content_length

\* the bytes of the chunks whose write_all has returned Ok
WrittenOk == BodyBytes - Len(chunk)
\* the bytes accumulated and not yet carried by a sample: temp_progress
\* until the loop has ended, nothing once the residual has been emitted
Unreported == IF eof THEN 0 ELSE temp_progress

\* C11: in every state of a download the progress values emitted so far
\* plus the unreported accumulator equal the bytes of the completed writes,
\* so the emitted sum never exceeds the bytes handed to the file writer.
DownloadProgressConservation ==
    dpc # "off" =>
        /\ SumProgress(DownloadSamples) + Unreported = WrittenOk
        /\ ~eof => SumProgress(DownloadSamples) + temp_progress = WrittenOk
        /\ SumProgress(DownloadSamples) <= Len(file)

\* a download whose second write failed half way, with bytes unreported
DownloadProgressConservationWitness ==
    /\ dpc = "failed"
    /\ d_failed_step = "write"
    /\ temp_progress > 0
    /\ Len(file) > WrittenOk

\* C12: every sample of an upload carries the bytes read since the previous
\* sample of that upload (since the start for the first one).
UploadSampleCarriesAccumulated ==
    \A i \in 1..Len(UploadSamples) :
        UploadSamples[i].progress =
            UploadSamples[i].total -
                (IF i = 1 THEN 0 ELSE UploadSamples[i - 1].total)

DownloadSequential ==
    /\ dpc \in {"next", "flush", "done"} =>
          chunk = <<>> /\ file = Flatten(received)
    /\ dpc = "write" =>
          /\ chunk = received[Len(received)]
          /\ file \o chunk = Flatten(received)
    /\ dpc = "next" =>
          SumProgress(DownloadSamples) + temp_progress = BodyBytes

\* the second chunk is in hand while the first one is written
DownloadSequentialWitness ==
    /\ dpc = "write"
    /\ Len(received) = 2
    /\ file = received[1]

\* C16: if request.send() fails download returns a request error, the file
\* is neither created nor truncated and no sample is emitted; the file is
\* created only once a response was received.
DownloadSendFailure ==
    /\ created => responded
    /\ d_failed_step = "send" =>
          /\ d_result = Err("Request")
          /\ ~created
          /\ file = <<>>
          /\ DownloadSamples = <<>>

\* download failed in request.send(), and time went on
DownloadSendFailureWitness ==
    /\ d_failed_step = "send"
    /\ dpc = "failed"
    /\ now >= 1

SamplesOfId(i) == SelectSeq(events, LAMBDA e : e.id = i)
\* the `total` of the last sample of s, the bytes read when it was emitted
LastTotal(s) == IF s = <<>> THEN 0 ELSE s[Len(s)].total
\* the time of the last emit call of s, or t0 when s is empty
LastAt(s, t0) == IF s = <<>> THEN t0 ELSE s[Len(s)].at

\* C14: when a download and an upload with distinct ids run interleaved,
\* every sample carries the id of the transfer that emitted it, the samples
\* with the download's id account for the download's own bytes (all of them
\* on success), and each accumulator and timer follows its own transfer.
ConcurrentIndependence ==
    /\ \A k \in 1..Len(events) :
          /\ events[k].id = d_id <=> events[k].event = "download://progress"
          /\ events[k].id = u_id <=> events[k].event = "upload://progress"
    /\ SumProgress(SamplesOfId(d_id)) + Unreported = WrittenOk
    /\ d_result.tag = "Ok" => SumProgress(SamplesOfId(d_id)) = BodyBytes
    /\ u_temp_progress = bytes_read - LastTotal(SamplesOfId(u_id))
    /\ last_emit_time = LastAt(Periodic(SamplesOfId(d_id)), d_timer0)
    /\ u_last_emit_time = LastAt(SamplesOfId(u_id), u_timer0)

\* a successful download whose two samples have a sample of the upload
\* between them
ConcurrentIndependenceWitness ==
    /\ d_result.tag = "Ok"
    /\ Len(events) = 3
    /\ events[1].id = d_id /\ events[2].id = u_id /\ events[3].id = d_id
    /\ upc = "body"

\* C17: the value returned by an emit call has no effect: whether or not
\* calls failed, the transfers fail only in their I/O and HTTP steps, the
\* bytes written and read are those received, and every emit call, failed
\* or not, zeroed the accumulator and restarted the timer, so that the
\* samples handed to emit never count a byte twice.
EmitFireAndForget ==
    /\ emit_failed \subseteq 1..Len(events)
    /\ d_result.tag = "Err" <=>
          d_failed_step \in {"send", "create", "read", "write", "flush"}
    /\ u_result.tag = "Err" <=>
          u_failed_step \in {"open", "read", "transport", "json"}
    /\ IsPrefix(file, Flatten(received))
    /\ d_result.tag = "Ok" => file = Flatten(received)
    /\ dpc # "off" => SumProgress(DownloadSamples) + Unreported = WrittenOk
    /\ u_temp_progress = bytes_read - LastTotal(UploadSamples)
    /\ LET t == LastAt(Periodic(DownloadSamples), d_timer0)
       IN  t <= last_emit_time /\ last_emit_time <= t + MaxEmitDelay
    /\ LET t == LastAt(UploadSamples, u_timer0)
       IN  t <= u_last_emit_time /\ u_last_emit_time <= t + MaxEmitDelay

\* a download returned Ok although the emit call of its first sample failed
EmitFireAndForgetWitness ==
    /\ d_result.tag = "Ok"
    /\ Len(DownloadSamples) = 2
    /\ 1 \in emit_failed
    /\ 2 \notin emit_failed

\* C18: the status of the response has no part in the outcome of download:
\* a failure of the send step means no response was received, a download
\* with a response fails only in create, read, write or flush, and with any
\* status it returns Ok(id) with the whole body written and reported when
\* those steps succeed.
DownloadIgnoresStatus ==
    /\ responded <=> status \in Statuses
    /\ d_failed_step = "send" => ~responded
    /\ (responded /\ dpc = "failed") =>
          d_failed_step \in {"create", "read", "write", "flush"}
    /\ (responded /\ created /\ eof /\ flushed) =>
          /\ d_result = Ok(d_id)
          /\ file = Flatten(received)
          /\ SumProgress(DownloadSamples) = BodyBytes

\* a download of a 500 response returned Ok with two samples
DownloadIgnoresStatusWitness ==
    /\ status = 500
    /\ d_result = Ok(d_id)
    /\ Len(DownloadSamples) = 2
    /\ BodyBytes >= 2

====
